---- MODULE Spec2Model ----
(***************************************************************************)
(* Model of the koi-pond simulation (src/src/main.ts): the per-tick force  *)
(* composer of class Simulation, the activation timer, and the physics     *)
(* engine's integration step it relies on.                                 *)
(*                                                                         *)
(* Numbers.  The program computes in IEEE doubles; the model computes in   *)
(* fixed point:                                                            *)
(*   lengths and velocities  in 1/Px of a pixel (per tick)                 *)
(*   angles                  in 1/10 of a degree (Pi = 1800)               *)
(*   dimensionless reals, unit vectors and forces in 1/One                 *)
(* Every division rounds to the nearest unit, symmetrically about zero.    *)
(***************************************************************************)
EXTENDS Integers, Sequences, FiniteSets, TLC

\* ------------------------------------------------------------------------
\* Resolution of the fixed-point arithmetic
\* ------------------------------------------------------------------------
One == 10 ^ 4
Px == 2 * 5

\* Math.PI in angle units
Pi == 1800

\* ------------------------------------------------------------------------
\* Number kernel (Math.*)
\* ------------------------------------------------------------------------
Abs(a) == IF a < 0 THEN -a ELSE a
Sgn(a) == IF a < 0 THEN -1 ELSE IF a > 0 THEN 1 ELSE 0
Min(a, b) == IF a < b THEN a ELSE b
Max(a, b) == IF a > b THEN a ELSE b

\* a / b for b > 0, rounded to nearest, symmetric about zero
Div(a, b) == Sgn(a) * ((2 * Abs(a) + b) \div (2 * b))

\* floor of the square root of n by Newton's iteration, from a guess x that
\* is not below it
RECURSIVE SqrtFrom(_, _)
SqrtFrom(n, x) ==
  IF x = 0 THEN 0
  ELSE LET y == (x + n \div x) \div 2
       IN IF y >= x THEN x ELSE SqrtFrom(n, y)

\* r or r + 1, whichever is nearer the square root of n, for r its floor
SqrtRound(n, r) == IF n - r * r > r THEN r + 1 ELSE r

\* sin of whole degrees 0..90, in 1/10000
SinTab ==
  << 0, 175, 349, 523, 698, 872, 1045, 1219, 1392, 1564, 1736, 1908, 2079,
     2250, 2419, 2588, 2756, 2924, 3090, 3256, 3420, 3584, 3746, 3907, 4067,
     4226, 4384, 4540, 4695, 4848, 5000, 5150, 5299, 5446, 5592, 5736, 5878,
     6018, 6157, 6293, 6428, 6561, 6691, 6820, 6947, 7071, 7193, 7314, 7431,
     7547, 7660, 7771, 7880, 7986, 8090, 8192, 8290, 8387, 8480, 8572, 8660,
     8746, 8829, 8910, 8988, 9063, 9135, 9205, 9272, 9336, 9397, 9455, 9511,
     9563, 9613, 9659, 9703, 9744, 9781, 9816, 9848, 9877, 9903, 9925, 9945,
     9962, 9976, 9986, 9994, 9998, 10000 >>

\* sin on [0, Pi/2], linear between whole degrees
SinQ(a) ==
  LET d == a \div 10
      f == a % 10
      s0 == SinTab[d + 1]
      s1 == IF d < 90 THEN SinTab[d + 2] ELSE s0
  IN Div((s0 * 10 + (s1 - s0) * f) * One, 10 * 10000)

\* Math.sin
Sin(a) ==
  LET m == a % (2 * Pi)
  IN IF m <= Pi \div 2 THEN SinQ(m)
     ELSE IF m <= Pi THEN SinQ(Pi - m)
     ELSE IF m <= (3 * Pi) \div 2 THEN -SinQ(m - Pi)
     ELSE -SinQ(2 * Pi - m)

\* Math.cos
Cos(a) == Sin(a + Pi \div 2)

\* how far the direction at d whole degrees lies below that of (x, y), x, y >= 0
AtanErr(y, x, d) == SinTab[91 - d] * y - SinTab[d + 1] * x

\* the largest whole number of degrees in [lo, hi) whose tangent is <= y / x
RECURSIVE AtanSearch(_, _, _, _)
AtanSearch(y, x, lo, hi) ==
  IF hi - lo <= 1 THEN lo
  ELSE LET mid == (lo + hi) \div 2
       IN IF AtanErr(y, x, mid) >= 0
          THEN AtanSearch(y, x, mid, hi)
          ELSE AtanSearch(y, x, lo, mid)

\* the angle between d and d + 1 degrees at which the direction is that of
\* (x, y), sin and cos being linear between whole degrees
AtanRound(y, x, d) ==
  IF d = 90 THEN Pi \div 2
  ELSE d * 10 + Div(10 * AtanErr(y, x, d), AtanErr(y, x, d) - AtanErr(y, x, d + 1))

\* atan2 on the first quadrant (x, y >= 0, not both 0), rounded to nearest
AtanQ(y, x) == AtanRound(y, x, AtanSearch(y, x, 0, 91))

\* the angle of (x, y) from the angle a of (|x|, |y|)
InQuadrant(y, x, a) ==
  IF x >= 0 THEN (IF y >= 0 THEN a ELSE -a)
  ELSE (IF y >= 0 THEN Pi - a ELSE a - Pi)

\* Math.atan2(y, x), in (-Pi, Pi]
Atan2(y, x) ==
  IF x = 0 /\ y = 0 THEN 0 ELSE InQuadrant(y, x, AtanQ(Abs(y), Abs(x)))

\* ------------------------------------------------------------------------
\* Vector kernel (matter-js Vector)
\* ------------------------------------------------------------------------
Vec(x, y) == [x |-> x, y |-> y]
Zero == Vec(0, 0)
VAdd(a, b) == Vec(a.x + b.x, a.y + b.y)
VSub(a, b) == Vec(a.x - b.x, a.y - b.y)
\* Vector.mult by a real k in 1/One
VMult(v, k) == Vec(Div(v.x * k, One), Div(v.y * k, One))
\* Vector.magnitude: Math.sqrt of the sum of squares, rounded to nearest
Magnitude(v) ==
  SqrtRound(v.x * v.x + v.y * v.y,
            SqrtFrom(v.x * v.x + v.y * v.y, Abs(v.x) + Abs(v.y)))
\* Vector.normalise: a unit vector in 1/One; the zero vector for the zero vector
Scaled(v, m) == IF m = 0 THEN Zero ELSE Vec(Div(v.x * One, m), Div(v.y * One, m))
Normalise(v) == Scaled(v, Magnitude(v))
\* Vector.perp
Perp(v) == Vec(-v.y, v.x)
\* Vector.angle(a, b): the angle of the vector from a to b
VAngle(a, b) == Atan2(b.y - a.y, b.x - a.x)

\* ------------------------------------------------------------------------
\* Configuration (constructor, lines 16-23) and the window
\* ------------------------------------------------------------------------
\* bound on the population (the program seeds 60 bodies, line 79)
NumBodies == 4
\* bounds on the length of a run
MaxTicks == 3
MaxFirings == 7

geoScale == 2
speedLimit == 5
fieldOfViewDegrees == 270
\* 200 * geoScale pixels
viewDistance == 200 * geoScale * Px
\* 5 * geoScale pixels
circleSize == 5 * geoScale * Px
\* window.innerWidth, window.innerHeight: the canvas, in length units
CanvasWidth == 800 * Px
CanvasHeight == 600 * Px
\* velocity units per pixel per tick
VelPerPx == 10 ^ 3
\* Engine.update: velocity gained per tick, in pixels, by a unit force
\* (deltaTime^2 / mass for a circle of radius circleSize at timeScale 0.2)
InvMass == 35
\* Body.update: what a tick leaves of the velocity, in thousandths
\* (1 - frictionAir * timeScale, with frictionAir 0.01)
AirFriction == 998

Ids == 1 .. NumBodies
\* engine.world.bodies: World.add order, never reordered
WorldBodies == [i \in Ids |-> i]

VARIABLES
  body,      \* id -> [position, velocity, angle, isStatic, force, neighborsInView]
  bodies,    \* this.bodies: the timer's queue of ids
  phase,     \* "idle", or "beforeUpdate" while the forEach of one tick runs
  idx,       \* index into this.bodies of the next forEach callback
  ticks,     \* engine updates completed
  firings,   \* timer callbacks run
  pre,       \* body as it was when the current tick began
  log,       \* id -> what the composer did for it in the current tick
  canvas     \* this.render.canvas: its width and height, in length units

vars == <<body, bodies, phase, idx, ticks, firings, pre, log, canvas>>

\* the canvas the constructor creates (lines 36-37)
WindowCanvas == [width |-> CanvasWidth, height |-> CanvasHeight]

\* ------------------------------------------------------------------------
\* Sorting (Array.prototype.sort with a numeric comparator: stable)
\* ------------------------------------------------------------------------
\* insert pair p = <<key, value>> after every pair whose key is <= its key
RECURSIVE InsertPair(_, _)
InsertPair(s, p) ==
  IF s = << >> THEN << p >>
  ELSE IF Head(s)[1] <= p[1] THEN << Head(s) >> \o InsertPair(Tail(s), p)
  ELSE << p >> \o s

RECURSIVE SortPairs(_)
SortPairs(s) ==
  IF s = << >> THEN << >>
  ELSE InsertPair(SortPairs(SubSeq(s, 1, Len(s) - 1)), s[Len(s)])

\* a falloff law without the test of line 357
calculateRepulsionForceUnbounded(currentDistance, comfortableDistance, baseForce) ==
  LET intensity == Div((comfortableDistance - currentDistance) * One,
                       comfortableDistance)
  IN Div(baseForce * Div(intensity * intensity, One), One)

\* ------------------------------------------------------------------------
\* calculateRepulsionForce (lines 356-363)
\* ------------------------------------------------------------------------
calculateRepulsionForce(currentDistance, comfortableDistance, baseForce) ==
  IF currentDistance < comfortableDistance
  THEN LET intensity == Div((comfortableDistance - currentDistance) * One,
                            comfortableDistance)
       IN Div(baseForce * Div(intensity * intensity, One), One)
  ELSE 0

\* a current that carries a body along its own velocity
getCurrentForceAlong(b, B) ==
  LET toCenter == VSub(Vec(CanvasWidth \div 2, CanvasHeight \div 2), B[b].position)
      distanceToCenter == Magnitude(toCenter)
      maxDistance == Magnitude(Vec(CanvasWidth \div 2, CanvasHeight \div 2))
      forceScale == Div(distanceToCenter * 2 * One, maxDistance)
  IN VMult(Normalise(B[b].velocity), forceScale)

\* ------------------------------------------------------------------------
\* getCurrentForce (lines 176-196)
\* ------------------------------------------------------------------------
getCurrentForce(b, B) ==
  LET toCenter == VSub(Vec(CanvasWidth \div 2, CanvasHeight \div 2), B[b].position)
      distanceToCenter == Magnitude(toCenter)
      maxDistance == Magnitude(Vec(CanvasWidth \div 2, CanvasHeight \div 2))
      forceScale == Div(distanceToCenter * 2 * One, maxDistance)
      perpendicular == Perp(toCenter)
  IN VMult(Normalise(perpendicular), forceScale)

\* ------------------------------------------------------------------------
\* getEdgeRepulsionForce (lines 198-210)
\* ------------------------------------------------------------------------
getEdgeRepulsionForce(b, B, radius, baseForce) ==
  LET scaledRadius == radius * geoScale * Px
      p == B[b].position
      distanceToNearestEdgeX == Min(p.x, CanvasWidth - p.x)
      distanceToNearestEdgeY == Min(p.y, CanvasHeight - p.y)
      forceX == calculateRepulsionForce(distanceToNearestEdgeX, scaledRadius, baseForce)
                  * (IF 2 * p.x < CanvasWidth THEN 1 ELSE -1)
      forceY == calculateRepulsionForce(distanceToNearestEdgeY, scaledRadius, baseForce)
                  * (IF 2 * p.y < CanvasHeight THEN 1 ELSE -1)
  IN Vec(forceX, forceY)

\* ------------------------------------------------------------------------
\* getVisibleBodies (lines 309-339)
\* ------------------------------------------------------------------------
\* Query.region: the bodies whose bounds (a square of half-side circleSize
\* about the position) overlap the box, in world order
QueryRegion(B, min, max) ==
  SelectSeq(WorldBodies, LAMBDA o :
    /\ B[o].position.x - circleSize <= max.x
    /\ B[o].position.x + circleSize >= min.x
    /\ B[o].position.y - circleSize <= max.y
    /\ B[o].position.y + circleSize >= min.y)

\* the filter callback of lines 323-333
InView(b, other, B) ==
  /\ other # b
  /\ LET fieldOfViewRadians == (fieldOfViewDegrees * Pi) \div 180
         toOther == VSub(B[other].position, B[b].position)
         distance == Magnitude(toOther)
         \* a unit vector: one pixel long
         bodyDirection == Vec(Div(Cos(B[b].angle) * Px, One),
                              Div(Sin(B[b].angle) * Px, One))
         angleToOther == VAngle(bodyDirection, toOther)
     IN angleToOther <= fieldOfViewRadians \div 2 /\ distance <= viewDistance

\* a filter whose result stays in world order
SortByWorldOrder(b, s, B) == s

\* the sort of lines 333-338, on <<distance, id>> pairs
SortByDistance(b, s, B) ==
  LET keyed == [i \in 1 .. Len(s) |->
                  << Magnitude(VSub(B[b].position, B[s[i]].position)), s[i] >>]
      sorted == SortPairs(keyed)
  IN [i \in 1 .. Len(s) |-> sorted[i][2]]

getVisibleBodies(b, B) ==
  LET searchRadius == viewDistance
      p == B[b].position
      bodiesInRegion == QueryRegion(B, Vec(p.x - searchRadius, p.y - searchRadius),
                                       Vec(p.x + searchRadius, p.y + searchRadius))
  IN SortByDistance(b, SelectSeq(bodiesInRegion, LAMBDA o : InView(b, o, B)), B)

\* ------------------------------------------------------------------------
\* getDistanceToNearestBody (lines 258-275)
\* ------------------------------------------------------------------------
\* the forEach callback of lines 261-272 for `other`, given minDistance so far
\* lines 265-270, given toOther and distance
ProbeCone(angle, toOther, distance, minDistance) ==
  IF distance < minDistance
  THEN LET angleToOther == Atan2(toOther.y, toOther.x)
       IN IF Abs(angle - angleToOther) <= (10 * Pi) \div 180
          THEN distance
          ELSE minDistance
  ELSE minDistance

ProbeStep(b, B, angle, other, minDistance) ==
  IF other # b /\ ~B[other].isStatic
  THEN LET toOther == VSub(B[other].position, B[b].position)
       IN ProbeCone(angle, toOther, Magnitude(toOther), minDistance)
  ELSE minDistance

RECURSIVE ProbeFrom(_, _, _, _, _)
ProbeFrom(b, B, angle, i, minDistance) ==
  IF i > Len(WorldBodies) THEN minDistance
  ELSE ProbeFrom(b, B, angle, i + 1, ProbeStep(b, B, angle, WorldBodies[i], minDistance))

getDistanceToNearestBody(b, B, angle, searchRadius) ==
  ProbeFrom(b, B, angle, 1, searchRadius)

\* ------------------------------------------------------------------------
\* isCircleClear (lines 277-283)
\* ------------------------------------------------------------------------
CircleCenter(b, B, angle, radius) ==
  VAdd(B[b].position, VMult(Vec(Cos(angle), Sin(angle)), radius))

isCircleClear(b, B, angle, radius, visibleBodies) ==
  LET circleCenter == CircleCenter(b, B, angle, radius)
  IN ~ \E i \in 1 .. Len(visibleBodies) :
         Magnitude(VSub(circleCenter, B[visibleBodies[i]].position)) < radius

\* ------------------------------------------------------------------------
\* steerTowards (lines 341-354)
\* ------------------------------------------------------------------------
steerTowards(b, B, angle) ==
  LET targetPointDistance == 100 * Px
      targetPoint == Vec(B[b].position.x + Div(Cos(angle) * targetPointDistance, One),
                         B[b].position.y + Div(Sin(angle) * targetPointDistance, One))
      desiredDirection == VSub(targetPoint, B[b].position)
  IN Normalise(desiredDirection)

\* ------------------------------------------------------------------------
\* getSocialForce (lines 212-256)
\* ------------------------------------------------------------------------
minGap == (10 * Pi) \div 180
maxGap == (90 * Pi) \div 180

\* lines 223-228: the sorted bearings of the cached neighbors, closed by the
\* first bearing plus a full turn
GapAngles(b, B) ==
  LET nv == B[b].neighborsInView
      raw == [i \in 1 .. Len(nv) |->
                LET toOther == VSub(B[nv[i]].position, B[b].position)
                    a == Atan2(toOther.y, toOther.x)
                IN << a, a >>]
      sorted == SortPairs(raw)
      angles == [i \in 1 .. Len(nv) |-> sorted[i][1]]
  IN Append(angles, angles[1] + Pi * 2)

\* a loop that takes every gap of the band, wider than the last taken or not
GapAcceptedLast(gap, largestGap) ==
  gap > minGap /\ gap < maxGap

\* a loop with no upper bound on the gap
GapAcceptedUnbounded(gap, largestGap) ==
  gap > largestGap /\ gap > minGap

\* a loop that also takes a gap of exactly minGap or maxGap
GapAcceptedClosed(gap, largestGap) ==
  gap > largestGap /\ gap >= minGap /\ gap <= maxGap

\* whether the loop body of lines 235-248 takes gap i as the largest so far
GapAccepted(gap, largestGap) ==
  gap > largestGap /\ gap > minGap /\ gap < maxGap

\* a loop that takes the gap without the clearance check
GapCheckedBlind(b, B, gap, midpointAngle, circleRadius, acc) ==
  [largestGap |-> gap, gapMidpoint |-> midpointAngle, gapRadius |-> circleRadius]

\* lines 241-247, given distanceToNearestBody: the locals after the clearance check
GapChecked(b, B, gap, midpointAngle, circleRadius, acc) ==
  IF isCircleClear(b, B, midpointAngle, circleRadius, B[b].neighborsInView)
  THEN [largestGap |-> gap, gapMidpoint |-> midpointAngle, gapRadius |-> circleRadius]
  ELSE acc

\* lines 237-247: the locals after a gap that passed line 236
GapTried(b, B, gap, midpointAngle, scaledRadius, acc) ==
  GapChecked(b, B, gap, midpointAngle,
             Div(getDistanceToNearestBody(b, B, midpointAngle, scaledRadius), 2), acc)

\* the loop of lines 234-249 from index i on; acc holds the three locals
RECURSIVE GapScan(_, _, _, _, _, _)
GapScan(b, B, angles, scaledRadius, i, acc) ==
  IF i > Len(angles) - 1 THEN acc
  ELSE LET gap == angles[i + 1] - angles[i]
       IN GapScan(b, B, angles, scaledRadius, i + 1,
                  IF GapAccepted(gap, acc.largestGap)
                  THEN GapTried(b, B, gap, angles[i] + Div(gap, 2), scaledRadius, acc)
                  ELSE acc)

NoGap == [largestGap |-> 0, gapMidpoint |-> 0, gapRadius |-> 0]

\* the locals largestGap, gapMidpoint, gapRadius when the loop ends
ChosenGap(b, B, radius) ==
  IF Len(B[b].neighborsInView) = 0 THEN NoGap
  ELSE GapScan(b, B, GapAngles(b, B), radius * geoScale * Px, 1, NoGap)

\* lines 251-255
GapSteers(g) == g.largestGap > minGap /\ g.gapRadius > 0

\* lines 251-255, given the locals
SteerInto(b, B, g) ==
  IF GapSteers(g) THEN steerTowards(b, B, g.gapMidpoint) ELSE Zero

\* a body with nobody in view steers straight ahead
getSocialForceAhead(b, B, radius) ==
  IF Len(B[b].neighborsInView) = 0 THEN steerTowards(b, B, B[b].angle)
  ELSE SteerInto(b, B, ChosenGap(b, B, radius))

getSocialForce(b, B, radius) ==
  IF Len(B[b].neighborsInView) = 0 THEN Zero
  ELSE SteerInto(b, B, ChosenGap(b, B, radius))

\* ------------------------------------------------------------------------
\* getAntiSocialForce (lines 285-307)
\* ------------------------------------------------------------------------
\* the contribution of one neighbor (lines 292-303)
Repulsion(b, other, B, scaledRadius, baseForce, speedScalingFactor) ==
  IF other = b THEN Zero
  ELSE LET distanceVector == VSub(B[b].position, B[other].position)
           distance == Magnitude(distanceVector)
       IN IF distance < scaledRadius
          THEN LET repulsionMagnitude ==
                     Div(calculateRepulsionForce(distance, scaledRadius, baseForce)
                           * speedScalingFactor, One)
               IN VMult(Scaled(distanceVector, distance), repulsionMagnitude)
          ELSE Zero

\* a sum that keeps only the nearest neighbor's contribution
RepulsionNearest(b, B, scaledRadius, baseForce, speedScalingFactor, i) ==
  IF i = 0 THEN Zero
  ELSE Repulsion(b, B[b].neighborsInView[1], B, scaledRadius, baseForce,
                 speedScalingFactor)

RECURSIVE RepulsionSum(_, _, _, _, _, _)
RepulsionSum(b, B, scaledRadius, baseForce, speedScalingFactor, i) ==
  IF i = 0 THEN Zero
  ELSE VAdd(RepulsionSum(b, B, scaledRadius, baseForce, speedScalingFactor, i - 1),
            Repulsion(b, B[b].neighborsInView[i], B, scaledRadius, baseForce,
                      speedScalingFactor))

getAntiSocialForce(b, B, radius, baseForce) ==
  LET scaledRadius == radius * geoScale * Px
      \* the speed in pixels per tick, held to [1, 2]
      speedScalingFactor ==
        Min(Max(Div(Magnitude(B[b].velocity) * One, VelPerPx), One), 2 * One)
  IN RepulsionSum(b, B, scaledRadius, baseForce, speedScalingFactor,
                  Len(B[b].neighborsInView))

\* a callback whose force terms read the cache left on the body
WithStaleNeighbors(b, B) == B

\* ------------------------------------------------------------------------
\* manageBodyDynamics: the forEach callback (lines 114-138)
\* ------------------------------------------------------------------------
\* line 118
WithNeighbors(b, B) ==
  [B EXCEPT ![b].neighborsInView = getVisibleBodies(b, B)]

\* lines 120-125: the four weighted terms, read from the cached neighbors
Forces(b, B) ==
  [current |-> VMult(getCurrentForce(b, B), 2 * One),
   edge    |-> VMult(getEdgeRepulsionForce(b, B, 100, One \div 10), 5 * One),
   social  |-> VMult(getSocialForce(b, B, 20), One \div 10),
   anti    |-> VMult(getAntiSocialForce(b, B, 50, 2 * One), One)]

\* a sum that leaves the current out
NetForceNoCurrent(f) ==
  VAdd(VAdd(VAdd(Zero, f.edge), f.social), f.anti)

\* line 127
NetForce(f) ==
  VAdd(VAdd(VAdd(VAdd(Zero, f.current), f.edge), f.social), f.anti)

\* line 130: the force handed to Body.applyForce
AppliedForce(netForce) == Vec(Div(netForce.x, 1000), Div(netForce.y, 1000))

\* a limit applied to each component of the velocity on its own
EnforceSpeedLimitPerAxis(velocity) ==
  Vec(Max(Min(velocity.x, speedLimit * VelPerPx), -(speedLimit * VelPerPx)),
      Max(Min(velocity.y, speedLimit * VelPerPx), -(speedLimit * VelPerPx)))

\* lines 132-137: the velocity after the speed limit
EnforceSpeedLimit(velocity) ==
  LET currentSpeed == Magnitude(velocity)
  IN IF currentSpeed > speedLimit * VelPerPx
     THEN VMult(Normalise(velocity), speedLimit * VelPerPx)
     ELSE velocity

NotRun == [status |-> "none"]

\* the record of one callback for an Active body, kept for the rest of the
\* tick: B1 is B with the cache of line 118 set, f the terms of lines 122-125
LogGiven(b, B1, f) ==
  [status    |-> "composed",
   neighbors |-> B1[b].neighborsInView,
   forces    |-> f,
   net       |-> NetForce(f),
   calls     |-> 1,
   before    |-> B1[b].velocity]

LogWith(b, B1) == LogGiven(b, B1, Forces(b, B1))

LogOf(b, B) == LogWith(b, WithNeighbors(b, B))

\* a callback that also moves the body along its velocity, ahead of the engine
ComposedMoving(b, B, l) ==
  [B EXCEPT ![b] =
     [@ EXCEPT !.neighborsInView = l.neighbors,
               !.force = VAdd(@, AppliedForce(l.net)),
               !.velocity = EnforceSpeedLimit(@),
               !.position = Vec(@.x + Div(B[b].velocity.x * Px, VelPerPx),
                                @.y + Div(B[b].velocity.y * Px, VelPerPx))]]

\* a callback that also puts a body at rest back to sleep
ComposedResting(b, B, l) ==
  [B EXCEPT ![b] =
     [@ EXCEPT !.neighborsInView = l.neighbors,
               !.force = VAdd(@, AppliedForce(l.net)),
               !.velocity = EnforceSpeedLimit(@),
               !.isStatic = (B[b].velocity = Zero)]]

\* what the callback does to an Active body, given its record
Composed(b, B, l) ==
  [B EXCEPT ![b] =
     [@ EXCEPT !.neighborsInView = l.neighbors,
               !.force = VAdd(@, AppliedForce(l.net)),
               !.velocity = EnforceSpeedLimit(@)]]

\* a callback that steers a static body like an Active one
SkippedSteered(b, B) == Composed(b, B, LogOf(b, B))

\* what the callback does to a static body: it returns at line 115
Skipped(b, B) == B

\* ------------------------------------------------------------------------
\* Actions
\* ------------------------------------------------------------------------
\* a timer that only ever wakes bodies
setStaticWake(r, isStatic) == [r EXCEPT !.isStatic = FALSE]

\* Body.setStatic: a body made static loses its motion
setStatic(r, isStatic) ==
  IF isStatic THEN [r EXCEPT !.isStatic = TRUE, !.velocity = Zero]
  ELSE [r EXCEPT !.isStatic = FALSE]

\* a timer that puts the body back where it took it
RequeueAtHead(queue) == << Head(queue) >> \o Tail(queue)

\* a timer that moves two bodies to the end of the queue at each firing
RequeueSkip(queue) == Append(Append(Tail(Tail(queue)), Head(queue)), queue[2])

\* lines 106 and 108: the body shifted off the queue is pushed at its end
Requeue(queue) == Append(Tail(queue), Head(queue))

\* the setInterval callback (lines 105-109); it runs between engine updates
Timer ==
  /\ phase = "idle"
  /\ firings < MaxFirings
  /\ LET b == Head(bodies)
     IN /\ body' = [body EXCEPT ![b] = setStatic(body[b], ~body[b].isStatic)]
        /\ bodies' = Requeue(bodies)
  /\ firings' = firings + 1
  /\ UNCHANGED <<phase, idx, ticks, pre, log, canvas>>

\* Engine.update begins: 'beforeUpdate' is emitted (line 113)
RunnerTick(limit) ==
  /\ phase = "idle"
  /\ ticks < limit
  /\ phase' = "beforeUpdate"
  /\ idx' = 1
  /\ pre' = body
  /\ log' = [i \in Ids |-> NotRun]
  /\ UNCHANGED <<body, bodies, ticks, firings, canvas>>

\* one callback of this.bodies.forEach (lines 114-138)
ComposeBody ==
  /\ phase = "beforeUpdate"
  /\ idx <= Len(bodies)
  /\ LET b == bodies[idx]
     IN IF body[b].isStatic
        THEN /\ log' = [log EXCEPT ![b] = [status |-> "skipped"]]
             /\ body' = Skipped(b, body)
        ELSE /\ log' = [log EXCEPT ![b] = LogOf(b, body)]
             /\ body' = Composed(b, body, log'[b])
  /\ idx' = idx + 1
  /\ UNCHANGED <<bodies, phase, ticks, firings, pre, canvas>>

\* the engine integrates one body (Body.update): the velocity, less the air
\* friction, plus what the applied force adds, moves the position; the force
\* is cleared.  Collisions are not modelled.
Integrated(r) ==
  IF r.isStatic THEN [r EXCEPT !.force = Zero]
  ELSE LET v == Vec(Div(r.velocity.x * AirFriction, 1000)
                      + Div(r.force.x * InvMass * VelPerPx, One),
                    Div(r.velocity.y * AirFriction, 1000)
                      + Div(r.force.y * InvMass * VelPerPx, One))
       IN [r EXCEPT !.velocity = v,
                    !.position = Vec(r.position.x + Div(v.x * Px, VelPerPx),
                                     r.position.y + Div(v.y * Px, VelPerPx)),
                    !.force = Zero]

\* the rest of Engine.update, once every 'beforeUpdate' callback has run
EngineUpdate ==
  /\ phase = "beforeUpdate"
  /\ idx > Len(bodies)
  /\ body' = [i \in Ids |-> Integrated(body[i])]
  /\ phase' = "idle"
  /\ ticks' = ticks + 1
  /\ UNCHANGED <<bodies, idx, firings, pre, log, canvas>>

\* ------------------------------------------------------------------------
\* addBodies: the hexagonal layout (lines 72-103)
\* ------------------------------------------------------------------------
\* the layer of the k-th body created (k from 0): layer 0 holds one body,
\* layer n holds 6n
RECURSIVE LayerFrom(_, _)
LayerFrom(k, layer) ==
  IF k < 1 + 3 * layer * (layer + 1) THEN layer ELSE LayerFrom(k, layer + 1)

NewBody(k) ==
  LET layer == LayerFrom(k, 0)
      bodiesInLayer == IF layer = 0 THEN 1 ELSE 6 * layer
      i == IF layer = 0 THEN 0 ELSE k - (1 + 3 * layer * (layer - 1))
      angleStep == (Pi * 2) \div bodiesInLayer
      angle == angleStep * i
      layerDistance == 7 * circleSize
  IN [position |-> Vec(CanvasWidth \div 2 + Div(layerDistance * layer * Cos(angle), One),
                       CanvasHeight \div 2 + Div(layerDistance * layer * Sin(angle), One)),
      velocity |-> Zero,
      angle    |-> angle + Pi \div 2,
      isStatic |-> TRUE,
      force    |-> Zero,
      neighborsInView |-> << >>]

\* the state when the constructor returns
Init ==
  /\ body = [i \in Ids |-> NewBody(i - 1)]
  /\ bodies = [i \in Ids |-> i]
  /\ phase = "idle"
  /\ idx = 1
  /\ ticks = 0
  /\ firings = 0
  /\ pre = body
  /\ log = [i \in Ids |-> NotRun]
  /\ canvas = WindowCanvas

Next ==
  \/ Timer
  \/ RunnerTick(MaxTicks)
  \/ ComposeBody
  \/ EngineUpdate

Spec == Init /\ [][Next]_vars

\* ------------------------------------------------------------------------
\* Scenes: states of a run in progress, for the claims about one tick
\* ------------------------------------------------------------------------
\* body 1, the observer, is Active at ScenePosition; the other bodies stand
\* at some of ScenePoints (offsets from the observer in pixels, and whether
\* the body is static)
ScenePosition == Vec(300 * Px, 200 * Px)

ScenePoints ==
  << [x |-> 700,  y |-> 0,    isStatic |-> FALSE],   \* bearing 0, 70 px
     [x |-> 350,  y |-> 606,  isStatic |-> FALSE],   \* bearing 60, 70 px
     [x |-> 173,  y |-> 100,  isStatic |-> TRUE],    \* bearing 30, 20 px
     [x |-> 260,  y |-> 150,  isStatic |-> FALSE],   \* bearing 30, 30 px
     [x |-> -272, y |-> 127,  isStatic |-> FALSE],   \* bearing 155, 30 px
     [x |-> -300, y |-> 520,  isStatic |-> FALSE],   \* bearing 120, 60 px
     [x |-> -591, y |-> -104, isStatic |-> TRUE],    \* bearing 190, 60 px
     [x |-> 4500, y |-> 0,    isStatic |-> FALSE],   \* out of view
     [x |-> 4200, y |-> 1000, isStatic |-> TRUE],    \* out of view
     [x |-> 0,    y |-> 600,  isStatic |-> FALSE],   \* bearing 90, 60 px
     [x |-> -564, y |-> -205, isStatic |-> FALSE],   \* bearing 200, 60 px
     [x |-> -700, y |-> 0,    isStatic |-> FALSE],   \* bearing 180, 70 px
     [x |-> 290,  y |-> 78,   isStatic |-> TRUE] >>  \* bearing 15, 30 px

\* the observer's heading, and its velocity: at rest, at speedLimit and over it
SceneAngles == {0, Pi \div 2}
SceneVelocities ==
  {Zero, Vec(3 * VelPerPx, 4 * VelPerPx), Vec(6 * VelPerPx, 8 * VelPerPx)}

\* the choices of NumBodies - 1 scene points, in the order of ScenePoints
ScenePicks ==
  {s \in [1 .. NumBodies - 1 -> 1 .. Len(ScenePoints)] :
     \A i \in 1 .. NumBodies - 2 : s[i] < s[i + 1]}

SceneBody(i, pick, angle, velocity) ==
  IF i = 1
  THEN [position |-> ScenePosition, velocity |-> velocity, angle |-> angle,
        isStatic |-> FALSE, force |-> Zero, neighborsInView |-> << >>]
  ELSE LET pt == ScenePoints[pick[i - 1]]
       IN [position |-> Vec(ScenePosition.x + pt.x, ScenePosition.y + pt.y),
           velocity |-> Zero, angle |-> Pi \div 2,
           isStatic |-> pt.isStatic, force |-> Zero, neighborsInView |-> << >>]

SceneInit ==
  /\ \E pick \in ScenePicks, angle \in SceneAngles, velocity \in SceneVelocities :
       body = [i \in Ids |-> SceneBody(i, pick, angle, velocity)]
  /\ bodies = [i \in Ids |-> i]
  /\ phase = "idle"
  /\ idx = 1
  /\ ticks = 0
  /\ firings = 0
  /\ pre = body
  /\ log = [i \in Ids |-> NotRun]
  /\ canvas = WindowCanvas

\* one engine update of a scene
SceneNext ==
  \/ RunnerTick(1)
  \/ ComposeBody
  \/ EngineUpdate

SceneSpec == SceneInit /\ [][SceneNext]_vars

\* ------------------------------------------------------------------------
\* Properties
\* ------------------------------------------------------------------------
\* the bodies the composer has handled as Active in the current tick
Done == {b \in Ids : log[b].status = "composed"}

\* the Active body whose callback has just run, if any
JustRun ==
  IF phase = "beforeUpdate" /\ idx > 1 /\ log[bodies[idx - 1]].status = "composed"
  THEN {bodies[idx - 1]}
  ELSE {}

\* the bodies as body b saw them in its callback: the positions of the start
\* of the tick and its own cache
Seen(b) == [pre EXCEPT ![b].neighborsInView = log[b].neighbors]

Range(s) == {s[i] : i \in 1 .. Len(s)}

\* the minimum speed of the speed envelope: 0.1 pixel per tick
minSpeed == VelPerPx \div 10

\* C1: once the composer has handled an Active body in a tick, and until the
\* engine integrates, the body's speed lies in [minSpeed, speedLimit]
\* (to within one velocity unit).
C1_SpeedEnvelope ==
  \A b \in Done :
    phase = "beforeUpdate" =>
      /\ Magnitude(body[b].velocity) >= minSpeed
      /\ Magnitude(body[b].velocity) <= speedLimit * VelPerPx + 1

\* the search radius getSocialForce is called with (line 124), in length units
SocialRadius == 20 * geoScale * Px

\* the gaps of body b's loop in the current tick: index, width and midpoint
\* of every pair of consecutive sorted bearings
GapsOf(b) ==
  LET angles == GapAngles(b, Seen(b))
  IN [i \in 1 .. Len(angles) - 1 |->
        [index |-> i,
         gap |-> angles[i + 1] - angles[i],
         midpointAngle |-> angles[i] + Div(angles[i + 1] - angles[i], 2)]]

\* the locals of body b's loop when it reaches the gap of index i
LocalsBefore(b, i) ==
  GapScan(b, Seen(b), SubSeq(GapAngles(b, Seen(b)), 1, i), SocialRadius, 1, NoGap)

\* the gaps that pass line 236, so that the probe and the clearance check run
TriedGaps(b) ==
  IF log[b].neighbors = << >> THEN {}
  ELSE {g \in Range(GapsOf(b)) :
          GapAccepted(g.gap, LocalsBefore(b, g.index).largestGap)}

\* body o lies where the probe of body b along `angle` looks: nearer than the
\* search radius and within 10 degrees of the angle (lines 265-267)
InProbeCone(b, o, angle) ==
  LET toOther == VSub(pre[o].position, pre[b].position)
  IN /\ Magnitude(toOther) < SocialRadius
     /\ Abs(angle - Atan2(toOther.y, toOther.x)) <= (10 * Pi) \div 180

\* C2: every force term of a body observes its visible-neighbor snapshot: a
\* body lying in the cone of a gap probe is taken into account by the probe
\* (line 262) exactly when it is in the snapshot the other terms read.
C2_SameSnapshot ==
  \A b \in Done : \A g \in TriedGaps(b) : \A o \in Ids \ {b} :
    InProbeCone(b, o, g.midpointAngle) =>
      (~pre[o].isStatic <=> o \in Range(log[b].neighbors))

\* C3: within one tick every body's perception and net force are those of
\* the positions, headings and activation states of the start of the tick,
\* which no callback of the tick changes: the net force does not depend on
\* the order of the callbacks.
C3_PreTickSnapshot ==
  /\ \A b \in JustRun :
       /\ log[b].neighbors = getVisibleBodies(b, pre)
       /\ log[b].net = NetForce(Forces(b, WithNeighbors(b, pre)))
  /\ phase = "beforeUpdate" =>
       \A i \in Ids : /\ body[i].position = pre[i].position
                      /\ body[i].angle = pre[i].angle
                      /\ body[i].isStatic = pre[i].isStatic

\* a body whose callback changed its velocity is then seen by a later callback
C3_Witness ==
  /\ phase = "beforeUpdate"
  /\ \E a \in Done, b \in Done :
       /\ a # b
       /\ body[a].velocity # pre[a].velocity
       /\ a \in Range(log[b].neighbors)
       /\ log[b].net # Zero

\* the turns body b has had at the head of the timer's queue after `k` firings
Turns(b, k) == (k + NumBodies - b) \div NumBodies

\* C4 (as stated): once the timer has made a body Active, no step makes it
\* Dormant (static) again.
C4_OnceActive ==
  [][\A b \in Ids : ~body[b].isStatic => ~body'[b].isStatic]_vars

\* C4 (amended): the timer toggles the body at the head of its queue and moves
\* it to the back, so a body is Dormant exactly when it has had an even number
\* of turns: it wakes at its first turn and is Dormant again at its second.
C4_TimerToggles ==
  /\ \A b \in Ids : body[b].isStatic <=> Turns(b, firings) % 2 = 0
  /\ \A i \in Ids : bodies[i] = ((firings + i - 1) % NumBodies) + 1

\* a body that was Active is Dormant again after its second turn
C4_Witness ==
  \E b \in Ids : Turns(b, firings) = 2 /\ body[b].isStatic

\* the term of line 124 in the record of body b, and the term it is when
\* getSocialForce steers toward `angle`
SocialTerm(b) == log[b].forces.social
SteerTerm(b, angle) == VMult(steerTowards(b, Seen(b), angle), One \div 10)

\* lines 238-241: the radius of the clearance circle along `angle`
ClearanceRadius(b, angle) ==
  Div(getDistanceToNearestBody(b, Seen(b), angle, SocialRadius), 2)

\* the locals of body b's loop when it ended
FinalGap(b) == ChosenGap(b, Seen(b), 20)

\* no visible neighbor of b is nearer than g.gapRadius to the point that far
\* from b along g.gapMidpoint
NobodyInCircle(b, g) ==
  \A o \in Range(log[b].neighbors) :
    Magnitude(VSub(CircleCenter(b, Seen(b), g.gapMidpoint, g.gapRadius),
                   pre[o].position)) >= g.gapRadius

\* C5: whenever gap steering returns a direction, no visible neighbor is
\* nearer than the clearance radius to the centre of the chosen gap's
\* clearance circle, position + radius * direction(midpoint).
C5_ChosenGapClear ==
  \A b \in JustRun :
    SocialTerm(b) # Zero => NobodyInCircle(b, FinalGap(b))

\* gap steering returned a direction, past a gap that the clearance check refused
C5_Witness ==
  \E b \in JustRun :
    /\ SocialTerm(b) # Zero
    /\ \E g \in TriedGaps(b) :
         ~isCircleClear(b, Seen(b), g.midpointAngle,
                        ClearanceRadius(b, g.midpointAngle), log[b].neighbors)

\* the gap passes the clearance check of lines 238-245
PassesClearance(b, g) ==
  isCircleClear(b, Seen(b), g.midpointAngle,
                ClearanceRadius(b, g.midpointAngle), log[b].neighbors)

\* the widest gap of a set, the first in the loop's order among equals
Widest(S) ==
  CHOOSE g \in S : \A h \in S : h.gap < g.gap \/ (h.gap = g.gap /\ h.index >= g.index)

\* the gaps wider than minGap that pass the clearance check
ClearGaps(b) ==
  IF log[b].neighbors = << >> THEN {}
  ELSE {g \in Range(GapsOf(b)) : g.gap > minGap /\ PassesClearance(b, g)}

\* the term of line 124 if gap steering steers into the widest gap of S, and
\* returns the zero vector when S is empty or that gap's clearance radius is
\* not above `least`
SteerWidest(b, g, least) ==
  IF ClearanceRadius(b, g.midpointAngle) > least
  THEN SteerTerm(b, g.midpointAngle)
  ELSE Zero

SteerInside(b, S, least) ==
  IF S = {} THEN Zero ELSE SteerWidest(b, Widest(S), least)

BandGaps(b) == {g \in ClearGaps(b) : g.gap < maxGap}

NarrowerBefore(S) ==
  \E g \in S, w \in S : w = Widest(S) /\ g.index < w.index /\ g.gap < w.gap

Wrap(a) == ((a + Pi) % (2 * Pi)) - Pi

\* the unsigned angle between body b's heading and the vector from b to o
HeadingAngle(b, o) ==
  LET toOther == VSub(pre[o].position, pre[b].position)
  IN Abs(Wrap(Atan2(toOther.y, toOther.x) - pre[b].angle))

\* the distance between bodies b and o at the start of the tick
Distance(b, o) == Magnitude(VSub(pre[o].position, pre[b].position))

\* C8: a body within view distance of b is in b's visible set exactly when
\* the unsigned angle between b's heading and the vector to it is at most
\* half the field of view.
C8_SymmetricCone ==
  \A b \in JustRun : \A o \in Ids \ {b} :
    Distance(b, o) <= viewDistance =>
      (o \in Range(log[b].neighbors)
         <=> HeadingAngle(b, o) <= ((fieldOfViewDegrees * Pi) \div 180) \div 2)

\* C9: the visible-neighbor sequence never holds the observer, never holds a
\* body farther than viewDistance, and is in ascending distance to the observer.
C9_SortedInRange ==
  \A b \in JustRun :
    /\ b \notin Range(log[b].neighbors)
    /\ \A o \in Range(log[b].neighbors) : Distance(b, o) <= viewDistance
    /\ \A i \in 1 .. Len(log[b].neighbors) - 1 :
         Distance(b, log[b].neighbors[i]) <= Distance(b, log[b].neighbors[i + 1])

\* the sequence is not in world order, and a body beyond viewDistance was left out
C9_Witness ==
  \E b \in JustRun :
    /\ \E i \in 1 .. Len(log[b].neighbors) - 1 :
         /\ log[b].neighbors[i] > log[b].neighbors[i + 1]
         /\ Distance(b, log[b].neighbors[i]) < Distance(b, log[b].neighbors[i + 1])
    /\ \E o \in Ids : Distance(b, o) > viewDistance

\* the radius getAntiSocialForce is called with (line 125), in length units
AntiSocialRadius == 50 * geoScale * Px

\* C10: with no visible neighbor, gap steering contributes the zero vector
\* and personal-space repulsion returns the zero vector.
C10_NoNeighbors ==
  \A b \in JustRun :
    log[b].neighbors = << >> =>
      /\ SocialTerm(b) = Zero
      /\ log[b].forces.anti = Zero

\* nobody in view, though a body stands unseen inside the personal space
C10_Witness ==
  \E b \in JustRun :
    /\ log[b].neighbors = << >>
    /\ \E o \in Ids \ {b} : Distance(b, o) < AntiSocialRadius
    /\ log[b].net # Zero

\* the offset of body o from body b at the start of the tick
Offset(b, o) == VSub(pre[o].position, pre[b].position)

\* body b sees exactly two bodies, both inside the personal-space radius, at
\* opposite bearings and equal distance
OppositePair(b) ==
  /\ Len(log[b].neighbors) = 2
  /\ Offset(b, log[b].neighbors[1]) = VSub(Zero, Offset(b, log[b].neighbors[2]))
  /\ Distance(b, log[b].neighbors[1]) < AntiSocialRadius

\* C11: with exactly two visible neighbors inside the personal-space radius
\* at opposite bearings and equal distance, the repulsion is the zero vector.
C11_OppositeCancel ==
  \A b \in JustRun : OppositePair(b) => log[b].forces.anti = Zero

\* a moving body between two such neighbors, each of which repels it
C11_Witness ==
  \E b \in JustRun :
    /\ OppositePair(b)
    /\ pre[b].velocity # Zero
    /\ Repulsion(b, log[b].neighbors[1], Seen(b), AntiSocialRadius, 2 * One, One) # Zero

\* ------------------------------------------------------------------------
\* Pairs: bodies 1 and 2 Active anywhere in the canvas, the others still
\* Dormant where addBodies put them
\* ------------------------------------------------------------------------
\* positions in pixels: along the horizontal and the vertical through the
\* centre, from edge to edge, and off both
PairPoints ==
  { Vec(x * Px, 300 * Px) : x \in {0, 50, 120, 195, 200, 400, 600, 605, 700, 800} }
    \cup { Vec(400 * Px, y * Px) : y \in {0, 80, 195, 200, 400, 450, 600} }
    \cup { Vec(120 * Px, 450 * Px), Vec(250 * Px, 250 * Px) }

\* the velocity of body 1; body 2 heads down at 2 pixels per tick
PairVelocities == {Zero, Vec(3 * VelPerPx, 0)}

PairBody(i, p1, p2, velocity) ==
  IF i = 1
  THEN [position |-> p1, velocity |-> velocity, angle |-> 0,
        isStatic |-> FALSE, force |-> Zero, neighborsInView |-> << >>]
  ELSE IF i = 2
  THEN [position |-> p2, velocity |-> Vec(0, 2 * VelPerPx), angle |-> Pi \div 2,
        isStatic |-> FALSE, force |-> Zero, neighborsInView |-> << >>]
  ELSE NewBody(i - 1)

PairInit ==
  /\ \E p1 \in PairPoints, p2 \in PairPoints, velocity \in PairVelocities :
       body = [i \in Ids |-> PairBody(i, p1, p2, velocity)]
  /\ bodies = [i \in Ids |-> i]
  /\ phase = "idle"
  /\ idx = 1
  /\ ticks = 0
  /\ firings = 0
  /\ pre = body
  /\ log = [i \in Ids |-> NotRun]
  /\ canvas = WindowCanvas

\* one engine update of a pair
PairSpec == PairInit /\ [][SceneNext]_vars

\* C12: the current force depends only on the position: two bodies at the
\* same position get the same current force, whatever their velocities,
\* headings and neighbor sets.
C12_CurrentByPosition ==
  \A a \in Done, b \in Done :
    pre[a].position = pre[b].position =>
      log[a].forces.current = log[b].forces.current

\* two bodies at one position, with different velocities, headings and
\* neighbors, in a current that is not zero
C12_Witness ==
  \E a \in Done, b \in Done :
    /\ a # b
    /\ pre[a].position = pre[b].position
    /\ pre[a].velocity # pre[b].velocity
    /\ pre[a].angle # pre[b].angle
    /\ log[a].neighbors # log[b].neighbors
    /\ log[a].forces.current # Zero

\* C13: the callbacks of the force loop change no body's activation state and
\* no body's position; an activation state changes only in a timer firing
\* and a position only in the engine's update.
C13_LoopFrame ==
  [][/\ (phase = "beforeUpdate" /\ phase' = "beforeUpdate") =>
          \A i \in Ids : /\ body'[i].position = body[i].position
                         /\ body'[i].isStatic = body[i].isStatic
     /\ (\E i \in Ids : body'[i].isStatic # body[i].isStatic) => firings' = firings + 1
     /\ (\E i \in Ids : body'[i].position # body[i].position) => ticks' = ticks + 1]_vars

\* in one tick the loop has applied a force to an Active body and skipped a
\* Dormant one
C13_Witness ==
  /\ phase = "beforeUpdate"
  /\ \E b \in Done : body[b].force # Zero /\ body[b].neighborsInView # << >>
  /\ \E s \in Ids : log[s].status = "skipped"

\* the bodies B, every one of them Active
AllActive(B) == [i \in Ids |-> [B[i] EXCEPT !.isStatic = FALSE]]

\* C14: a Dormant body counts in every neighbor-dependent step as an Active
\* body at its position would: the visible set, the distance the gap probe
\* measures, the clearance check and the repulsion are what they would be
\* with every body Active.
C14_DormantAsObstacle ==
  \A b \in JustRun :
    /\ log[b].neighbors = getVisibleBodies(b, AllActive(pre))
    /\ \A g \in TriedGaps(b) :
         /\ getDistanceToNearestBody(b, Seen(b), g.midpointAngle, SocialRadius)
              = getDistanceToNearestBody(b, AllActive(Seen(b)), g.midpointAngle,
                                         SocialRadius)
         /\ PassesClearance(b, g)
              = isCircleClear(b, AllActive(Seen(b)), g.midpointAngle,
                              ClearanceRadius(b, g.midpointAngle), log[b].neighbors)
    /\ log[b].forces.anti
         = VMult(getAntiSocialForce(b, AllActive(Seen(b)), 50, 2 * One), One)

\* ------------------------------------------------------------------------
\* The composer in JavaScript's arithmetic, for any canvas: a number is
\* finite (its value in v), an infinity (its sign in v) or NaN
\* ------------------------------------------------------------------------
Num(v) == [k |-> "num", v |-> v]
Infinity(sign) == [k |-> "inf", v |-> sign]
NaN == [k |-> "nan", v |-> 0]

JsFinite(a) == a.k = "num"

\* a / b for two numbers of one unit: a real in 1/One
JsDiv(a, b) ==
  IF a.k = "nan" \/ b.k = "nan" THEN NaN
  ELSE IF a.k = "inf" THEN (IF b.k = "inf" THEN NaN
                            ELSE Infinity(a.v * (IF b.v < 0 THEN -1 ELSE 1)))
  ELSE IF b.k = "inf" THEN Num(0)
  ELSE IF b.v = 0 THEN (IF a.v = 0 THEN NaN ELSE Infinity(Sgn(a.v)))
  ELSE Num(Sgn(b.v) * Div(a.v * One, Abs(b.v)))

\* a * k for a real k in 1/One
JsMul(a, k) ==
  IF a.k = "nan" \/ k.k = "nan" THEN NaN
  ELSE IF a.k = "inf" \/ k.k = "inf"
       THEN (IF a.v = 0 \/ k.v = 0 THEN NaN ELSE Infinity(Sgn(a.v) * Sgn(k.v)))
  ELSE Num(Div(a.v * k.v, One))

JsAdd(a, b) ==
  IF a.k = "nan" \/ b.k = "nan" THEN NaN
  ELSE IF a.k = "inf" /\ b.k = "inf" THEN (IF a.v = b.v THEN a ELSE NaN)
  ELSE IF a.k = "inf" THEN a
  ELSE IF b.k = "inf" THEN b
  ELSE Num(a.v + b.v)

JsVec(v) == [x |-> Num(v.x), y |-> Num(v.y)]
JsVMult(v, k) == [x |-> JsMul(v.x, k), y |-> JsMul(v.y, k)]
JsVAdd(a, b) == [x |-> JsAdd(a.x, b.x), y |-> JsAdd(a.y, b.y)]
JsVFinite(v) == JsFinite(v.x) /\ JsFinite(v.y)

\* getCurrentForce (lines 176-196) on canvas c
getCurrentForceJs(b, B, c) ==
  LET toCenter == VSub(Vec(c.width \div 2, c.height \div 2), B[b].position)
      distanceToCenter == Magnitude(toCenter)
      maxDistance == Magnitude(Vec(c.width \div 2, c.height \div 2))
      \* distanceToCenter / maxDistance * 2; the doubling is exact
      forceScale == JsDiv(Num(distanceToCenter * 2), Num(maxDistance))
      perpendicular == Perp(toCenter)
  IN JsVMult(JsVec(Normalise(perpendicular)), forceScale)

\* getEdgeRepulsionForce (lines 198-210) on canvas c: it divides by nothing
\* the canvas gives
getEdgeRepulsionForceJs(b, B, c, radius, baseForce) ==
  LET scaledRadius == radius * geoScale * Px
      p == B[b].position
      distanceToNearestEdgeX == Min(p.x, c.width - p.x)
      distanceToNearestEdgeY == Min(p.y, c.height - p.y)
      forceX == calculateRepulsionForce(distanceToNearestEdgeX, scaledRadius, baseForce)
                  * (IF 2 * p.x < c.width THEN 1 ELSE -1)
      forceY == calculateRepulsionForce(distanceToNearestEdgeY, scaledRadius, baseForce)
                  * (IF 2 * p.y < c.height THEN 1 ELSE -1)
  IN Vec(forceX, forceY)

\* lines 120-125 on canvas c
ForcesJs(b, B, c) ==
  [current |-> JsVMult(getCurrentForceJs(b, B, c), Num(2 * One)),
   edge    |-> JsVec(VMult(getEdgeRepulsionForceJs(b, B, c, 100, One \div 10), 5 * One)),
   social  |-> JsVec(VMult(getSocialForce(b, B, 20), One \div 10)),
   anti    |-> JsVec(VMult(getAntiSocialForce(b, B, 50, 2 * One), One))]

\* line 127
NetForceJs(f) ==
  JsVAdd(JsVAdd(JsVAdd(JsVAdd(JsVec(Zero), f.current), f.edge), f.social), f.anti)

\* line 130
AppliedForceJs(netForce) == JsVMult(netForce, Num(One \div 1000))

LogGivenJs(b, B1, f) ==
  [status    |-> "composed",
   neighbors |-> B1[b].neighborsInView,
   forces    |-> f,
   net       |-> NetForceJs(f),
   calls     |-> 1,
   before    |-> B1[b].velocity]

LogWithJs(b, B1, c) == LogGivenJs(b, B1, ForcesJs(b, B1, c))

LogOfJs(b, B, c) == LogWithJs(b, WithNeighbors(b, B), c)

\* what the callback does to an Active body, given its record
ComposedJs(b, B, l) ==
  [B EXCEPT ![b] =
     [@ EXCEPT !.neighborsInView = l.neighbors,
               !.force = JsVAdd(@, AppliedForceJs(l.net)),
               !.velocity = EnforceSpeedLimit(@)]]

\* one callback of this.bodies.forEach (lines 114-138)
ComposeBodyJs ==
  /\ phase = "beforeUpdate"
  /\ idx <= Len(bodies)
  /\ LET b == bodies[idx]
     IN IF body[b].isStatic
        THEN /\ log' = [log EXCEPT ![b] = [status |-> "skipped"]]
             /\ UNCHANGED body
        ELSE /\ log' = [log EXCEPT ![b] = LogOfJs(b, body, canvas)]
             /\ body' = ComposedJs(b, body, log'[b])
  /\ idx' = idx + 1
  /\ UNCHANGED <<bodies, phase, ticks, firings, pre, canvas>>

\* window.innerWidth and window.innerHeight, in pixels
WindowSizes ==
  { [width |-> 800, height |-> 600], [width |-> 1024, height |-> 768],
    [width |-> 0, height |-> 600], [width |-> 0, height |-> 0] }

\* the 'resize' listener (lines 51, 54-70); it runs between engine updates
handleResize ==
  /\ phase = "idle"
  /\ \E w \in WindowSizes :
       canvas' = [width |-> w.width * Px, height |-> w.height * Px]
  /\ UNCHANGED <<body, bodies, phase, idx, ticks, firings, pre, log>>

\* where body 1 stands: the positions of PairPoints no more than 400 pixels
\* from the origin on either axis (the edge term of an empty canvas grows
\* with the square of that distance)
WindowPoints == {p \in PairPoints : p.x <= 400 * Px /\ p.y <= 400 * Px}

WindowBody(i, p) ==
  IF i = 1
  THEN [position |-> p, velocity |-> Zero, angle |-> 0,
        isStatic |-> FALSE, force |-> JsVec(Zero), neighborsInView |-> << >>]
  ELSE [NewBody(i - 1) EXCEPT !.force = JsVec(Zero)]

\* body 1 Active somewhere in the canvas the constructor created
WindowInit ==
  /\ \E p \in WindowPoints : body = [i \in Ids |-> WindowBody(i, p)]
  /\ bodies = [i \in Ids |-> i]
  /\ phase = "idle"
  /\ idx = 1
  /\ ticks = 0
  /\ firings = 0
  /\ pre = body
  /\ log = [i \in Ids |-> NotRun]
  /\ canvas = WindowCanvas

\* resizes of the window, then the callbacks of one 'beforeUpdate'
WindowNext ==
  \/ handleResize
  \/ RunnerTick(1)
  \/ ComposeBodyJs

WindowSpec == WindowInit /\ [][WindowNext]_vars

\* C15: no NaN and no infinite value is passed to the force application: the
\* force a callback has applied to a body is finite.
C15_NonFiniteRejected ==
  \A b \in Done : JsVFinite(body[b].force)

\* every callback of the current tick has run
LoopDone == phase = "beforeUpdate" /\ idx > Len(bodies)

\* the weighted sum of the four terms for body b, from what it saw
WeightedSum(b) ==
  VAdd(VAdd(VMult(getCurrentForce(b, Seen(b)), 2 * One),
            VMult(getEdgeRepulsionForce(b, Seen(b), 100, One \div 10), 5 * One)),
       VAdd(VMult(getSocialForce(b, Seen(b), 20), One \div 10),
            VMult(getAntiSocialForce(b, Seen(b), 50, 2 * One), One)))

\* C16: when the callbacks of a tick have run, every body Active at the start
\* of the tick has had one force application, of the weighted sum of the
\* current, edge, gap-steering and repulsion terms (weights 2, 5, 0.1 and 1,
\* the sum scaled by 0.001), and a Dormant body none.
C16_OneWeightedSum ==
  LoopDone =>
    \A b \in Ids :
      IF pre[b].isStatic
      THEN log[b].status = "skipped" /\ body[b].force = pre[b].force
      ELSE /\ log[b].status = "composed"
           /\ log[b].calls = 1
           /\ body[b].force = VAdd(pre[b].force, AppliedForce(WeightedSum(b)))

\* the callbacks have run: a Dormant body was skipped, and an Active body got
\* a force in which the current, gap-steering and repulsion terms all count
C16_Witness ==
  /\ LoopDone
  /\ \E s \in Ids : pre[s].isStatic
  /\ \E b \in Done : /\ log[b].forces.current # Zero
                     /\ log[b].forces.social # Zero
                     /\ log[b].forces.anti # Zero
                     /\ body[b].force # Zero
  /\ \E b \in Done : log[b].forces.edge # Zero

\* C17: the speed limit is enforced after the integration: when a tick is
\* complete, every Active body's speed is at most speedLimit (to within one
\* velocity unit).
C17_LimitAfterIntegration ==
  (phase = "idle" /\ ticks > 0) =>
    \A b \in Ids :
      ~body[b].isStatic => Magnitude(body[b].velocity) <= speedLimit * VelPerPx + 1

\* C18: the heading that orients the field-of-view cone is atan2 of the
\* velocity: when a body with a non-zero velocity is handled, the angle the
\* perception reads is the direction of that velocity.
C18_HeadingFromVelocity ==
  \A b \in JustRun :
    pre[b].velocity # Zero =>
      pre[b].angle = Atan2(pre[b].velocity.y, pre[b].velocity.x)

\* ------------------------------------------------------------------------
\* Scenes with bodies behind the observer, across the bearing of 180 degrees
\* ------------------------------------------------------------------------
BehindPoints ==
  << [x |-> -600, y |-> -5,   isStatic |-> FALSE],   \* bearing -179.5, 60 px
     [x |-> -587, y |-> -125, isStatic |-> FALSE],   \* bearing -168, 60 px
     [x |-> -300, y |-> 10,   isStatic |-> FALSE],   \* bearing 178, 30 px
     [x |-> -300, y |-> -10,  isStatic |-> FALSE],   \* bearing -178, 30 px
     [x |-> 700,  y |-> 0,    isStatic |-> FALSE],   \* bearing 0, 70 px
     [x |-> -200, y |-> 20,   isStatic |-> TRUE],    \* bearing 174, 20 px
     [x |-> 0,    y |-> -600, isStatic |-> FALSE],   \* bearing -90, 60 px
     [x |-> -350, y |-> -606, isStatic |-> TRUE] >>  \* bearing -120, 70 px

BehindPicks ==
  {s \in [1 .. NumBodies - 1 -> 1 .. Len(BehindPoints)] :
     \A i \in 1 .. NumBodies - 2 : s[i] < s[i + 1]}

BehindBody(i, pick, angle, velocity) ==
  IF i = 1
  THEN [position |-> ScenePosition, velocity |-> velocity, angle |-> angle,
        isStatic |-> FALSE, force |-> Zero, neighborsInView |-> << >>]
  ELSE LET pt == BehindPoints[pick[i - 1]]
       IN [position |-> Vec(ScenePosition.x + pt.x, ScenePosition.y + pt.y),
           velocity |-> Zero, angle |-> Pi \div 2,
           isStatic |-> pt.isStatic, force |-> Zero, neighborsInView |-> << >>]

BehindInit ==
  /\ \E pick \in BehindPicks, angle \in SceneAngles, velocity \in SceneVelocities :
       body = [i \in Ids |-> BehindBody(i, pick, angle, velocity)]
  /\ bodies = [i \in Ids |-> i]
  /\ phase = "idle"
  /\ idx = 1
  /\ ticks = 0
  /\ firings = 0
  /\ pre = body
  /\ log = [i \in Ids |-> NotRun]
  /\ canvas = WindowCanvas

BehindSpec == BehindInit /\ [][SceneNext]_vars

\* the bearing of body o from body b at the start of the tick
Bearing(b, o) == Atan2(Offset(b, o).y, Offset(b, o).x)

\* C19: the probe's cone test compares wrapped angles: an Active body nearer
\* than the search radius whose bearing is within 10 degrees of a tried gap's
\* midpoint, modulo a full turn, is inside the cone, so the probe returns at
\* most its distance.
C19_WrappedCone ==
  \A b \in JustRun : \A g \in TriedGaps(b) : \A o \in Ids \ {b} :
    (/\ ~pre[o].isStatic
     /\ Distance(b, o) < SocialRadius
     /\ Abs(Wrap(g.midpointAngle - Bearing(b, o))) <= (10 * Pi) \div 180)
      => getDistanceToNearestBody(b, Seen(b), g.midpointAngle, SocialRadius)
           <= Distance(b, o)

\* the margin of the boundary force (line 123 calls it with radius 100) and a
\* body's distance to the nearer edge of each axis at the start of the tick
Margin == 100 * geoScale * Px
NearX(b) == Min(pre[b].position.x, CanvasWidth - pre[b].position.x)
NearY(b) == Min(pre[b].position.y, CanvasHeight - pre[b].position.y)

\* one axis component of the boundary force of a body at coordinate p of an
\* axis of length size, `near` away from the nearer edge: zero from the margin
\* on, otherwise towards the interior
EdgeAxis(force, p, size, near) ==
  IF near >= Margin THEN force = 0
  ELSE /\ IF 2 * p < size THEN force >= 0 ELSE force <= 0
       /\ near * 40 <= Margin * 39 => force # 0

\* C20: for a body inside the canvas each axis component of the boundary
\* force is zero at least a margin away from both edges of the axis, and
\* otherwise points to the interior; of two bodies the one nearer to an edge
\* of an axis has a component at least as large in magnitude.
C20_EdgeForce ==
  \A a \in Done :
    /\ EdgeAxis(log[a].forces.edge.x, pre[a].position.x, CanvasWidth, NearX(a))
    /\ EdgeAxis(log[a].forces.edge.y, pre[a].position.y, CanvasHeight, NearY(a))
    /\ \A b \in Done :
         /\ NearX(a) <= NearX(b) =>
              Abs(log[a].forces.edge.x) >= Abs(log[b].forces.edge.x)
         /\ NearY(a) <= NearY(b) =>
              Abs(log[a].forces.edge.y) >= Abs(log[b].forces.edge.y)

\* two bodies within the margin of different edges of one axis, one nearer to
\* its edge and pushed harder, both clear of the margins of the other axis
C20_Witness ==
  \E a \in Done, b \in Done :
    /\ NearX(a) < NearX(b)
    /\ NearX(b) < Margin
    /\ log[a].forces.edge.x > 0
    /\ log[b].forces.edge.x < 0
    /\ Abs(log[a].forces.edge.x) > Abs(log[b].forces.edge.x)
    /\ NearY(a) >= Margin
    /\ NearY(b) >= Margin
    /\ log[a].forces.edge.y = 0
    /\ log[b].forces.edge.y = 0

\* line 287 for body b, and the contribution of neighbor o to b's repulsion
\* (lines 295-301) in the current tick
SpeedScalingFactor(b) ==
  Min(Max(Div(Magnitude(pre[b].velocity) * One, VelPerPx), One), 2 * One)
Contribution(b, o) ==
  Repulsion(b, o, Seen(b), AntiSocialRadius, 2 * One, SpeedScalingFactor(b))

\* C21: one neighbor's repulsion contribution is zero from the comfort radius
\* on, points away from the neighbor, and does not grow with the distance:
\* of two neighbors of a body the nearer one, a coincident one included,
\* contributes at least as much (to within one percent and ten force units,
\* the resolution of the distances).
C21_RepulsionFalloff ==
  \A b \in JustRun : \A o \in Range(log[b].neighbors) :
    /\ Distance(b, o) >= AntiSocialRadius => Contribution(b, o) = Zero
    /\ Contribution(b, o).x * Offset(b, o).x
         + Contribution(b, o).y * Offset(b, o).y <= 0
    /\ \A n \in Range(log[b].neighbors) :
         Distance(b, o) <= Distance(b, n) =>
           Magnitude(Contribution(b, o)) * 101 + 1000
             >= Magnitude(Contribution(b, n)) * 100

\* C22: a body that is static when the tick's callback reaches it is not
\* steered: it is skipped, and until the engine integrates its force, its
\* velocity and its visible-neighbor cache (its whole record) are those of
\* the start of the tick.
C22_DormantNotSteered ==
  phase = "beforeUpdate" =>
    \A i \in 1 .. idx - 1 :
      pre[bodies[i]].isStatic =>
        /\ log[bodies[i]].status = "skipped"
        /\ body[bodies[i]] = pre[bodies[i]]

\* a static body has been skipped whose cache is not what it would see, next
\* to a body that has been steered
C22_Witness ==
  /\ phase = "beforeUpdate"
  /\ \E b \in Ids :
       /\ log[b].status = "skipped"
       /\ getVisibleBodies(b, pre) # body[b].neighborsInView
  /\ \E a \in Done : body[a].force # Zero

\* C23: the speed clamp leaves a velocity of at most speedLimit as it is, and
\* replaces a faster one by the velocity of the same direction whose speed is
\* speedLimit (to within one velocity unit); after the clamp the speed is at
\* most speedLimit.
C23_SpeedClamp ==
  \A b \in JustRun :
    LET before == log[b].before
        after == body[b].velocity
    IN /\ IF Magnitude(before) <= speedLimit * VelPerPx
          THEN after = before
          ELSE /\ Abs(Magnitude(after) - speedLimit * VelPerPx) <= 1
               /\ Abs(after.x * before.y - after.y * before.x) <= Magnitude(before)
               /\ after.x * before.x + after.y * before.y > 0
       /\ Magnitude(after) <= speedLimit * VelPerPx + 1

\* a body faster than the limit has been slowed down to the limit
C23_Witness ==
  \E b \in JustRun :
    /\ Magnitude(log[b].before) > speedLimit * VelPerPx
    /\ body[b].velocity # log[b].before
    /\ Magnitude(body[b].velocity) = speedLimit * VelPerPx

\* the creation order turned by k places
Rotation(k) == [i \in 1 .. NumBodies |-> WorldBodies[((i - 1 + k) % NumBodies) + 1]]

\* C24: the timer's queue always holds the bodies created at start, each
\* once, as a cyclic rotation of the creation order: after n firings the
\* creation order turned by n places.
C24_QueueRotation ==
  /\ bodies = Rotation(firings % NumBodies)
  /\ Len(bodies) = NumBodies
  /\ Range(bodies) = Ids

\* the queue has gone once round and one further, with ticks in between
C24_Witness ==
  /\ firings = NumBodies + 1
  /\ ticks > 0
  /\ Head(bodies) = WorldBodies[2]

\* the number of times the timer has toggled body i after n firings, when
\* the firings take the bodies in creation order, round and round
Toggles(i, n) == (n + NumBodies - i) \div NumBodies

\* C25: the timer is round-robin: the firings toggle the bodies one at a
\* time in creation order, round and round.  After n firings body i has
\* been toggled Toggles(i, n) times from static, and the next firing takes
\* the body whose turn it is; so a static body is Active within NumBodies
\* firings.
C25_RoundRobin ==
  /\ \A i \in Ids : body[WorldBodies[i]].isStatic = (Toggles(i, firings) % 2 = 0)
  /\ Head(bodies) = WorldBodies[(firings % NumBodies) + 1]

\* after one round and one firing the first body is static again and every
\* other body is Active
C25_Witness ==
  /\ firings = NumBodies + 1
  /\ body[WorldBodies[1]].isStatic
  /\ \A i \in 2 .. NumBodies : ~body[WorldBodies[i]].isStatic
  /\ \E i \in Ids : body[i].velocity # Zero

\* C26: every gap that gap steering steers into is one of the gaps between
\* consecutive bearings, strictly wider than minGap and strictly narrower
\* than maxGap; a gap outside the open interval is never steered into,
\* whatever its clearance.
C26_GapInOpenBand ==
  \A b \in JustRun :
    SocialTerm(b) # Zero =>
      /\ FinalGap(b).largestGap > minGap
      /\ FinalGap(b).largestGap < maxGap
      /\ \E g \in Range(GapsOf(b)) :
           /\ g.gap = FinalGap(b).largestGap
           /\ g.midpointAngle = FinalGap(b).gapMidpoint
      /\ SocialTerm(b) = SteerTerm(b, FinalGap(b).gapMidpoint)

\* gap steering has steered into a gap of the band although a gap of exactly
\* maxGap, wider, had an empty clearance circle of positive radius
C26_Witness ==
  \E b \in JustRun :
    /\ SocialTerm(b) # Zero
    /\ \E g \in Range(GapsOf(b)) :
         /\ g.gap = maxGap
         /\ PassesClearance(b, g)
         /\ ClearanceRadius(b, g.midpointAngle) > 0

\* the bodies at the start of the tick, with body b's cache computed from them
FreshCache(b) == [pre EXCEPT ![b].neighborsInView = getVisibleBodies(b, pre)]

\* C27: the cache the force terms of a body read is the one computed for it
\* in the same tick, from the bodies of that tick, whatever cache the body
\* carried before: the terms that read the cache are those of the fresh cache.
C27_FreshCacheRead ==
  \A b \in JustRun :
    /\ log[b].neighbors = getVisibleBodies(b, pre)
    /\ body[b].neighborsInView = log[b].neighbors
    /\ log[b].forces.social = VMult(getSocialForce(b, FreshCache(b), 20), One \div 10)
    /\ log[b].forces.anti = VMult(getAntiSocialForce(b, FreshCache(b), 50, 2 * One), One)

\* a body carried a cache of an earlier tick that is not what it sees now,
\* and its force terms read what it sees now
C27_Witness ==
  \E b \in JustRun :
    /\ pre[b].neighborsInView # << >>
    /\ pre[b].neighborsInView # log[b].neighbors
    /\ log[b].forces.anti # Zero

====
